---- MODULE Spec2Model ----
(***************************************************************************)
(* A model of skimage.feature.sift.SIFT (src/skimage/feature/sift.py).     *)
(*                                                                         *)
(* Four levels are modelled.                                               *)
(*   - The histogram level (SpecOri): lines 334-373 of                     *)
(*     _compute_orientation for one keypoint, pass by pass.                *)
(*   - The builder level (SpecBld): _create_scalespace, its seed blur and  *)
(*     its table of sigmas, scale by scale.                                *)
(*   - The instance level (Spec): one SIFT object, its attributes, and the *)
(*     public operations detect / extract / detect_and_extract, each as    *)
(*     one atomic step that runs the whole handler, exceptions included.   *)
(*   - The candidate level (SpecLoc): the body of _find_localize_evaluate  *)
(*     for one extremum of one DoG octave, iteration by iteration.         *)
(*                                                                         *)
(* Numbers.  Lengths in original-image pixels are fixed-point integers     *)
(* with PX units per pixel; ratios are fixed-point with FP units per 1.    *)
(* Sub-pixel offsets are counted in quarters (of an octave pixel).         *)
(* Octave indices o are 0-based as in the code; sequences are 1-based, so  *)
(* the code's a[o] is a[o + 1] here.                                       *)
(***************************************************************************)
EXTENDS Integers, Sequences, FiniteSets, TLC

VARIABLES
    sift,    \* the attributes of the SIFT instance (self)
    fresh,   \* the attributes right after __init__ (history)
    scene,   \* the DoG extrema of the scene the session's images show
    call,    \* the last public call: operation, image, exception raised
    loc,     \* the candidate-level state of _find_localize_evaluate
    orient,  \* the histogram-level state of _compute_orientation for one keypoint
    bld      \* the state of _create_scalespace while it builds the sigma table

vars == <<sift, fresh, scene, call, loc, orient, bld>>

(***************************************************************************)
(* Fixed-point arithmetic                                                  *)
(***************************************************************************)
PX == 80        \* units per pixel
FP == 100       \* units per 1.0 in ratios

\* exceptions: None when the call returns
None == "None"

\* an attribute that is still None, and one that holds the array s
NoArray == [none |-> TRUE, v |-> <<>>]
Array(s) == [none |-> FALSE, v |-> s]

Abs(x) == IF x < 0 THEN -x ELSE x
Min2(a, b) == IF a < b THEN a ELSE b
Max2(a, b) == IF a > b THEN a ELSE b

RECURSIVE Pow(_, _)
Pow(b, e) == IF e = 0 THEN 1 ELSE b * Pow(b, e - 1)

\* floor(FP * 2^(1/n)): the largest x with (x/FP)^n <= 2
Root2(n) == CHOOSE x \in FP..(2 * FP) :
                /\ Pow(x, n) <= 2 * Pow(FP, n)
                /\ Pow(x + 1, n) > 2 * Pow(FP, n)

\* floor(sqrt(v))
ISqrt(v) == CHOOSE x \in 0..(v + 1) : x * x <= v /\ (x + 1) * (x + 1) > v

\* float -> int conversion of a non-negative value num/den (truncation)
Trunc(num, den) == num \div den

\* ceil(n / 2): the length of a[::2]
Half(n) == (n + 1) \div 2

RECURSIVE Flatten(_)
Flatten(ss) == IF ss = <<>> THEN <<>> ELSE Head(ss) \o Flatten(Tail(ss))

\* the subsequence of s at the indices (in increasing order) that satisfy Keep
RECURSIVE Pick(_, _, _)
Pick(s, keep, i) ==
    IF i > Len(s) THEN <<>>
    ELSE (IF keep[i] THEN <<s[i]>> ELSE <<>>) \o Pick(s, keep, i + 1)

(***************************************************************************)
(* Images.  An image is abstracted to what the pipeline reads from it:     *)
(* its number of dimensions, its shape, and its DoG extrema.  Each entry   *)
(* of cands is one extremum that peak_local_max finds in octave o and that *)
(* passes localization, the contrast filter and the edge filter (lines     *)
(* 236-285, modelled step by step at the candidate level): its integer     *)
(* index key = (row, col, scale) in the octave, its sub-pixel offset off   *)
(* in quarters, and the number of peaks of the smoothed orientation        *)
(* histogram around it.  cands is ordered by octave.  The images of one    *)
(* session show one scene at several sizes (the larger image extends the   *)
(* smaller one to the right and downwards), or have a third axis.          *)
(***************************************************************************)
MaxKeys == 2            \* extrema per image

Shapes2D == { <<24, 24>>, <<64, 48>> }

\* the extrema an image may hold (row, col in octave pixels)
CandList ==
    << [o |-> 0, key |-> <<2, 12, 1>>,  off |-> <<-1, 0, 0>>, peaks |-> 1],
       [o |-> 0, key |-> <<5, 12, 1>>,  off |-> <<1, 0, 0>>,  peaks |-> 1],
       [o |-> 0, key |-> <<12, 11, 2>>, off |-> <<0, 1, -1>>, peaks |-> 2],
       [o |-> 0, key |-> <<22, 12, 1>>, off |-> <<1, -1, 0>>, peaks |-> 1],
       [o |-> 1, key |-> <<10, 10, 1>>, off |-> <<-1, 0, 1>>, peaks |-> 2] >>

\* the increasing index sequences of length <= n into 1..m
RECURSIVE SubIdx(_, _, _)
SubIdx(lo, m, n) ==
    IF n = 0 \/ lo > m THEN { <<>> }
    ELSE { <<>> } \cup
         UNION { { <<i>> \o r : r \in SubIdx(i + 1, m, n - 1) } : i \in lo..m }

Contents == { [j \in 1..Len(ix) |-> CandList[ix[j]]] :
                 ix \in SubIdx(1, Len(CandList), MaxKeys) }

ImagesOf(c) == { [ndim |-> 2, shape |-> sh, cands |-> c] : sh \in Shapes2D }
               \cup { [ndim |-> 3, shape |-> <<24, 24, 3>>, cands |-> c] }

Images == ImagesOf(scene)

(***************************************************************************)
(* __init__                                                                *)
(***************************************************************************)
\* The instances of Spec: upsampling 1 or 2 (for these sigma_min > sigma_in, so the
\* seed blur of _create_scalespace is real) and n_octaves 3 or 4, so that with the
\* image sizes of Shapes2D the effective number of octaves is below n_octaves for
\* some sessions and equal to it for others.  Images have min(shape) >= 12 and
\* regular Hessians at their extrema (np.linalg.solve returns).
Upsamplings == {1, 2}
NOctavesArgs == {3, 4}
DefaultNScales == 3
DefaultNOctaves == 8
DefaultUpsampling == 2
DefaultCEdge == 10
\* the default c_dog = 0.04 / 3, in the unit DoG values are counted in
DefaultCDog == 12

\* self.deltas = delta_min * 2 ** arange(n_octaves - 1), in quarters of a pixel
Deltas(upsampling, n_octaves) ==
    [i \in 1..Max2(n_octaves - 1, 0) |-> (4 \div upsampling) * Pow(2, i - 1)]

\* self.c_dog = (2 ** (1 / n_scales) - 1) / (2 ** (1 / 3) - 1) * c_dog, kept as the
\* exact fraction <<numerator, denominator>> of the fixed-point roots
AdjustedCDog(n_scales, c_dog) ==
    << (Root2(n_scales) - FP) * c_dog, Root2(3) - FP >>

\* mutant: self.c_dog keeps the option as passed, without the n_scales adjustment
SIFTInit_BaseCDog(upsampling, n_octaves, n_scales, c_dog, c_edge) ==
    [ upsampling        |-> upsampling,
      n_octaves         |-> n_octaves,
      n_scales          |-> n_scales,
      sigma_min         |-> ((16 * PX) \div 10) \div upsampling,
      sigma_in          |-> PX \div 2,
      c_dog             |-> <<c_dog, 1>>,
      c_edge            |-> c_edge,
      deltas            |-> Deltas(upsampling, n_octaves),
      scalespace_sigmas |-> NoArray,
      keypoints         |-> NoArray,
      positions         |-> NoArray,
      sigmas            |-> NoArray,
      scales            |-> NoArray,
      orientations      |-> NoArray,
      octaves           |-> NoArray,
      descriptors       |-> NoArray ]

SIFTInit(upsampling, n_octaves, n_scales, c_dog, c_edge) ==
    [ upsampling        |-> upsampling,
      n_octaves         |-> n_octaves,
      n_scales          |-> n_scales,
      sigma_min         |-> ((16 * PX) \div 10) \div upsampling,
      sigma_in          |-> PX \div 2,
      c_dog             |-> AdjustedCDog(n_scales, c_dog),
      c_edge            |-> c_edge,
      deltas            |-> Deltas(upsampling, n_octaves),
      scalespace_sigmas |-> NoArray,
      keypoints         |-> NoArray,
      positions         |-> NoArray,
      sigmas            |-> NoArray,
      scales            |-> NoArray,
      orientations      |-> NoArray,
      octaves           |-> NoArray,
      descriptors       |-> NoArray ]

(***************************************************************************)
(* check_nD, _number_of_octaves, _create_scalespace                        *)
(***************************************************************************)
\* check_nD(image, 2) passes
CheckND(img) == img.ndim = 2

\* floor(log2(s0 / 12)) for s0 >= 12
Log2Over12(s0) == CHOOSE e \in 0..20 : 12 * Pow(2, e) <= s0 /\ s0 < 12 * Pow(2, e + 1)

\* int(min(n, log(s0 / sMin) / log(2) + upsampling)), s0 = min(image_shape) >= 12
NumberOfOctaves(self, n, shape) ==
    LET s0 == Min2(shape[1], shape[2])
    IN  Min2(n, Log2Over12(s0) + self.upsampling)

\* the rows of the sigma table for one octave, starting at current_sigma
RECURSIVE OctaveSigmas(_, _, _)
OctaveSigmas(cur, k, left) ==
    IF left = 0 THEN <<cur>>
    ELSE <<cur>> \o OctaveSigmas((cur * k) \div FP, k, left - 1)

\* self.scalespace_sigmas after _create_scalespace: n_octaves rows of n_scales + 3
RECURSIVE ScalespaceSigmas(_, _, _, _)
ScalespaceSigmas(cur, k, n_scales, octs) ==
    IF octs = 0 THEN <<>>
    ELSE LET row == OctaveSigmas(cur, k, n_scales + 2)
         IN  <<row>> \o ScalespaceSigmas(row[n_scales + 1], k, n_scales, octs - 1)

CreateScalespace(self) ==
    [self EXCEPT !.scalespace_sigmas =
        Array(ScalespaceSigmas(self.sigma_min, Root2(self.n_scales),
                               self.n_scales, self.n_octaves))]

\* the (rows, cols) of Gaussian octave o: upsampled, then o times [::2, ::2]
RECURSIVE OctaveDim(_, _)
OctaveDim(n, o) == IF o = 0 THEN n ELSE OctaveDim(Half(n), o - 1)

OctaveShape(self, img, o) ==
    << OctaveDim(img.shape[1] * self.upsampling, o),
       OctaveDim(img.shape[2] * self.upsampling, o) >>

(***************************************************************************)
(* _find_localize_evaluate, lines 286-297: positions, border filter,       *)
(* and the concatenation over the scanned octaves                          *)
(***************************************************************************)
\* _inrange on all three axes: the index is none of the first/last of its axis
Interior(key, dim) ==
    \A a \in 1..3 : key[a] > 0 /\ key[a] < dim[a] - 1

\* shape of DoG octave o: np.diff along axis 2 of (rows, cols, n_scales + 3)
DogShape(self, img, o) ==
    LET d == OctaveShape(self, img, o) IN <<d[1], d[2], self.n_scales + 2>>

\* the extrema of the image in DoG octave o that reach line 286
KeysOfOctave(self, img, o) ==
    SelectSeq(img.cands, LAMBDA c : c.o = o /\ Interior(c.key, DogShape(self, img, o)))

\* FP * sigmaratio ** (q / 4), sigmaratio = sigmas[0, 1] / sigmas[0, 0] = k
PowRatio(self, q) ==
    LET k  == (self.scalespace_sigmas.v[1][2] * FP) \div self.scalespace_sigmas.v[1][1]
        r4 == ISqrt(ISqrt(k * FP) * FP)       \* FP * k ** (1/4)
    IN  IF q >= 0 THEN (Pow(r4, q) * FP) \div Pow(FP, q)
        ELSE (Pow(FP, -q) * FP) \div Pow(r4, -q)

\* yx = (keys[:, 0:2] + off[:, 0:2]) * delta, in PX units
YX(c, delta) ==
    << ((4 * c.key[1] + c.off[1]) * delta * PX) \div 16,
       ((4 * c.key[2] + c.off[2]) * delta * PX) \div 16 >>

\* sigmas = scalespace_sigmas[o, keys[:, 2]] * sigmaratio ** off[:, 2]
SigmaOf(self, c, o) ==
    (self.scalespace_sigmas.v[o + 1][c.key[3] + 1] * PowRatio(self, c.off[3])) \div FP

\* mutant: the far border is not tested
BorderFilter_NearOnly(yx, sigma, img_shape) ==
    \A a \in 1..2 : yx[a] - sigma > 0

\* border_filter: all((yx - sigma) > 0.0) and all((yx + sigma) < img_shape)
BorderFilter(yx, sigma, img_shape) ==
    \A a \in 1..2 : yx[a] - sigma > 0 /\ yx[a] + sigma < img_shape[a] * PX

\* the keypoints one octave contributes, as records (pos, scale, sigma, octave)
OctaveExtrema(self, img, o) ==
    LET keys  == KeysOfOctave(self, img, o)
        delta == self.deltas[o + 1]
        kp(c) == [pos    |-> YX(c, delta),
                  scale  |-> c.key[3],
                  sigma  |-> SigmaOf(self, c, o),
                  octave |-> o]
        all   == [i \in 1..Len(keys) |-> kp(keys[i])]
    IN  SelectSeq(all, LAMBDA e : BorderFilter(e.pos, e.sigma, img.shape))

\* the octaves the loop `for o, (octave, delta) in enumerate(zip(dogspace, self.deltas))` visits
ScannedOctaves(self) == Min2(self.n_octaves, Len(self.deltas))

\* [exc, extrema]: np.hstack / np.vstack of the per-octave lists raise on an empty list
FindLocalizeEvaluate(self, img) ==
    LET n == ScannedOctaves(self)
    IN  IF n = 0 THEN [exc |-> "ValueError", extrema |-> <<>>]
        ELSE [exc |-> None,
              extrema |-> Flatten([i \in 1..n |-> OctaveExtrema(self, img, i - 1)])]

(***************************************************************************)
(* _compute_orientation                                                    *)
(***************************************************************************)
\* the number of reference peaks of the histogram around a keypoint: read from the image
PeaksAt(self, img, e) ==
    LET delta == self.deltas[e.octave + 1]
        hit == { i \in 1..Len(img.cands) :
                    /\ img.cands[i].o = e.octave
                    /\ YX(img.cands[i], delta) = e.pos
                    /\ img.cands[i].key[3] = e.scale }
    IN  IF hit = {} THEN 1 ELSE img.cands[CHOOSE i \in hit : TRUE].peaks

\* lines 322-328: yx = positions / delta and radius = 3 * lambda_ori * sigmas / delta
PatchYX(self, e, a) == (e.pos[a] * 4) \div self.deltas[e.octave + 1]
PatchRadius(self, e) == (9 * ((e.sigma * 4) \div self.deltas[e.octave + 1])) \div 2

\* line 329: Min = np.maximum(0, yx - radius + 0.5).astype(int), on axis a
PatchMin(self, img, e, a) ==
    Trunc(Max2(0, PatchYX(self, e, a) - PatchRadius(self, e) + PX \div 2), PX)

\* line 330: Max = np.minimum(yx + radius + 0.5, dim - 1).astype(int), on axis a
PatchMax(self, img, e, a) ==
    Trunc(Min2(PatchYX(self, e, a) + PatchRadius(self, e) + PX \div 2,
               (OctaveShape(self, img, e.octave)[a] - 1) * PX), PX)

\* line 333: np.all(Min[k] > 0) and np.all(Max[k] > Min[k])
PatchOK(self, img, e) ==
    /\ \A a \in 1..2 : PatchMin(self, img, e, a) > 0
    /\ \A a \in 1..2 : PatchMax(self, img, e, a) > PatchMin(self, img, e, a)

\* the indices (key_count) of the keypoints that get a second, third, ... orientation
RECURSIVE ExtraPeaks(_, _, _, _)
ExtraPeaks(self, img, ext, i) ==
    IF i > Len(ext) THEN <<>>
    ELSE (IF PatchOK(self, img, ext[i])
          THEN [c \in 1..(PeaksAt(self, img, ext[i]) - 1) |-> [idx |-> i, peak |-> c + 1]]
          ELSE <<>>) \o ExtraPeaks(self, img, ext, i + 1)

\* `for o in range(self.n_octaves)` reads self.deltas[o] on every pass
OrientationIndexError(self) == self.n_octaves > Len(self.deltas)

\* [exc, self]: the five arrays are the valid keypoints followed by the clones
ComputeOrientation(self, ext, img) ==
    IF OrientationIndexError(self) THEN [exc |-> "IndexError", self |-> self]
    ELSE
      LET valid == [i \in 1..Len(ext) |-> PatchOK(self, img, ext[i])]
          kept  == Pick(ext, valid, 1)
          more  == ExtraPeaks(self, img, ext, 1)
          clone(f(_)) == [j \in 1..Len(more) |-> f(ext[more[j].idx])]
          keep(f(_))  == [j \in 1..Len(kept) |-> f(kept[j])]
          Pos(e) == e.pos
          Sca(e) == e.scale
          Sig(e) == e.sigma
          Oct(e) == e.octave
      IN  [exc |-> None,
           self |-> [self EXCEPT
              !.positions    = Array(keep(Pos) \o clone(Pos)),
              !.scales       = Array(keep(Sca) \o clone(Sca)),
              !.sigmas       = Array(keep(Sig) \o clone(Sig)),
              !.orientations = Array([j \in 1..Len(kept) |-> 1]
                                     \o [j \in 1..Len(more) |-> more[j].peak]),
              !.octaves      = Array(keep(Oct) \o clone(Oct))]]

(***************************************************************************)
(* _compute_descriptor                                                     *)
(***************************************************************************)
\* one row of self.descriptors: a function of the gradient of the image in the
\* keypoint's octave and of the keypoint's position, scale, sigma and orientation
DescRow(img, octave, pos, scale, sigma, ori) ==
    [img |-> img, octave |-> octave, pos |-> pos, scale |-> scale,
     sigma |-> sigma, ori |-> ori]

\* the octaves whose rows are written before the loop ends or self.deltas[o] raises
DescribedOctaves(self) == Min2(self.n_octaves, Len(self.deltas))

\* [exc, self]; junk is the content np.empty leaves in a row that is never written
ComputeDescriptor(self, img, junk) ==
    IF self.scales.none THEN [exc |-> "TypeError", self |-> self]
    ELSE
      LET nKey == Len(self.scales.v)
          row(i) == IF self.octaves.v[i] < DescribedOctaves(self)
                    THEN DescRow(img, self.octaves.v[i], self.positions.v[i],
                                 self.scales.v[i], self.sigmas.v[i],
                                 self.orientations.v[i])
                    ELSE junk
          done == [self EXCEPT !.descriptors = Array([i \in 1..nKey |-> row(i)])]
      IN  [exc |-> IF self.n_octaves > Len(self.deltas) THEN "IndexError" ELSE None,
           self |-> done]

(***************************************************************************)
(* detect, extract, detect_and_extract                                     *)
(***************************************************************************)
\* k.round().astype(int) of a coordinate in PX units: round half to even
Round(p) ==
    LET q == p \div PX
        r == p % PX
    IN  IF 2 * r < PX THEN q
        ELSE IF 2 * r > PX THEN q + 1
        ELSE IF q % 2 = 0 THEN q ELSE q + 1

\* self.keypoints = np.vstack([k.round().astype(int) for k in positions]):
\* positions is the local array returned by _find_localize_evaluate
SetKeypoints(self, ext) ==
    IF Len(ext) = 0 THEN [exc |-> "ValueError", self |-> self]
    ELSE [exc |-> None,
          self |-> [self EXCEPT !.keypoints =
                      Array([i \in 1..Len(ext) |->
                                <<Round(ext[i].pos[1]), Round(ext[i].pos[2])>>])]]

\* lines 491-493 (and 514-516, 533-535)
BuildScalespace(self, img) ==
    CreateScalespace([self EXCEPT !.n_octaves =
                         NumberOfOctaves(self, self.n_octaves, img.shape)])

\* each handler yields [exc, self, populated]: the exception that leaves the call
\* (None when it returns), the attributes afterwards, and whether
\* _compute_orientation assigned the five arrays
\* mutant: the outputs are reset before the image is validated
DetectResult_ResetFirst(self, img) ==
    IF ~CheckND(img)
    THEN [exc |-> "ValueError", self |-> [self EXCEPT !.keypoints = NoArray],
          populated |-> FALSE]
    ELSE
      LET s2  == BuildScalespace(self, img)
          fle == FindLocalizeEvaluate(s2, img)
          co  == ComputeOrientation(s2, fle.extrema, img)
          kp  == SetKeypoints(co.self, fle.extrema)
      IN  IF fle.exc # None THEN [exc |-> fle.exc, self |-> s2, populated |-> FALSE]
          ELSE IF co.exc # None THEN [exc |-> co.exc, self |-> co.self, populated |-> FALSE]
          ELSE [exc |-> kp.exc, self |-> kp.self, populated |-> TRUE]

DetectResult(self, img) ==
    IF ~CheckND(img) THEN [exc |-> "ValueError", self |-> self, populated |-> FALSE]
    ELSE
      LET s2  == BuildScalespace(self, img)
          fle == FindLocalizeEvaluate(s2, img)
          co  == ComputeOrientation(s2, fle.extrema, img)
          kp  == SetKeypoints(co.self, fle.extrema)
      IN  IF fle.exc # None THEN [exc |-> fle.exc, self |-> s2, populated |-> FALSE]
          ELSE IF co.exc # None THEN [exc |-> co.exc, self |-> co.self, populated |-> FALSE]
          ELSE [exc |-> kp.exc, self |-> kp.self, populated |-> TRUE]

\* mutant: the gradient pyramid of extract lacks the coarsest octave
ExtractResult_ShortPyramid(self, img, junk) ==
    IF ~CheckND(img) THEN [exc |-> "ValueError", self |-> self, populated |-> FALSE]
    ELSE
      LET s2 == BuildScalespace(self, img)
          cd == ComputeDescriptor([s2 EXCEPT !.n_octaves = @ - 1], img, junk)
      IN  [exc |-> cd.exc, self |-> [cd.self EXCEPT !.n_octaves = s2.n_octaves],
           populated |-> FALSE]

ExtractResult(self, img, junk) ==
    IF ~CheckND(img) THEN [exc |-> "ValueError", self |-> self, populated |-> FALSE]
    ELSE
      LET s2 == BuildScalespace(self, img)
          cd == ComputeDescriptor(s2, img, junk)
      IN  [exc |-> cd.exc, self |-> cd.self, populated |-> FALSE]

DetectAndExtractResult(self, img, junk) ==
    IF ~CheckND(img) THEN [exc |-> "ValueError", self |-> self, populated |-> FALSE]
    ELSE
      LET s2  == BuildScalespace(self, img)
          fle == FindLocalizeEvaluate(s2, img)
          co  == ComputeOrientation(s2, fle.extrema, img)
          cd  == ComputeDescriptor(co.self, img, junk)
          kp  == SetKeypoints(cd.self, fle.extrema)
      IN  IF fle.exc # None THEN [exc |-> fle.exc, self |-> s2, populated |-> FALSE]
          ELSE IF co.exc # None THEN [exc |-> co.exc, self |-> co.self, populated |-> FALSE]
          ELSE IF cd.exc # None THEN [exc |-> cd.exc, self |-> cd.self, populated |-> TRUE]
          ELSE [exc |-> kp.exc, self |-> kp.self, populated |-> TRUE]

NoImage == [ndim |-> 0, shape |-> <<>>, cands |-> <<>>]

\* what a row of np.empty((nKey, 128)) may hold when it is never written
Junk == { DescRow(NoImage, -1, <<0, 0>>, 0, 0, b) : b \in {0, 255} }

NoTwin == [none |-> TRUE, img |-> NoImage, descriptors |-> NoArray]

NoCall == [op |-> "none", img |-> NoImage, exc |-> None, populated |-> FALSE,
           twin |-> NoTwin]

\* history: what detect_and_extract(img) would have left in descriptors had it been
\* called in place of this detect(img)
TwinOf(self, img, junk) ==
    [none |-> FALSE, img |-> img,
     descriptors |-> DetectAndExtractResult(self, img, junk).self.descriptors]

Detect(img) ==
    LET r == DetectResult(sift, img)
    IN  /\ sift' = r.self
        /\ call' = [op |-> "detect", img |-> img, exc |-> r.exc,
                    populated |-> r.populated,
                    twin |-> IF r.populated
                             THEN TwinOf(sift, img, CHOOSE j \in Junk : TRUE)
                             ELSE NoTwin]
        /\ UNCHANGED <<fresh, scene, loc, orient, bld>>

Extract(img) ==
    \E junk \in Junk :
        LET r == ExtractResult(sift, img, junk)
        IN  /\ sift' = r.self
            /\ call' = [op |-> "extract", img |-> img, exc |-> r.exc,
                        populated |-> FALSE,
                        twin |-> IF ~call.twin.none /\ call.twin.img = img
                                 THEN call.twin ELSE NoTwin]
            /\ UNCHANGED <<fresh, scene, loc, orient, bld>>

DetectAndExtract(img) ==
    \E junk \in Junk :
        LET r == DetectAndExtractResult(sift, img, junk)
        IN  /\ sift' = r.self
            /\ call' = [op |-> "detect_and_extract", img |-> img, exc |-> r.exc,
                        populated |-> r.populated, twin |-> NoTwin]
            /\ UNCHANGED <<fresh, scene, loc, orient, bld>>


Init ==
    /\ \E u \in Upsamplings, n \in NOctavesArgs :
          sift = SIFTInit(u, n, DefaultNScales, DefaultCDog, DefaultCEdge)
    /\ fresh = sift
    /\ scene \in Contents
    /\ call = NoCall
    /\ loc = [pc |-> "idle"]
    /\ orient = [pc |-> "idle"]
    /\ bld = [pc |-> "idle"]

Next ==
    \/ \E img \in Images : Detect(img)
    \/ \E img \in Images : Extract(img)
    \/ \E img \in Images : DetectAndExtract(img)

Spec == Init /\ [][Next]_vars

(***************************************************************************)
(* Claims about the public operations (checked under Spec)                 *)
(***************************************************************************)
Detecting == call.op \in {"detect", "detect_and_extract"}

Returned == call.op # "none" /\ call.exc = None

\* the extrema that survive _find_localize_evaluate in the last call's image
Survivors == FindLocalizeEvaluate(sift, call.img).extrema

Outputs == <<sift.keypoints, sift.positions, sift.sigmas, sift.scales,
             sift.orientations, sift.octaves>>

\* C1: after detect or detect_and_extract returns, keypoints, positions, sigmas,
\* scales, orientations and octaves all have the same length N, the count after
\* orientation expansion, and descriptors has N rows after detect_and_extract.
C1_ShapeConformance ==
    (Detecting /\ Returned) =>
        /\ \A i \in 1..6 : ~Outputs[i].none
        /\ \A i \in 1..6 : Len(Outputs[i].v) = Len(sift.orientations.v)
        /\ call.op = "detect_and_extract" =>
              /\ ~sift.descriptors.none
              /\ Len(sift.descriptors.v) = Len(sift.orientations.v)

\* C2: when no extremum survives, detect and detect_and_extract complete without
\* raising and leave every output array empty (descriptors too after
\* detect_and_extract).
C2_EmptyResult ==
    (Detecting /\ CheckND(call.img)
       /\ FindLocalizeEvaluate(BuildScalespace(sift, call.img), call.img).extrema = <<>>) =>
        /\ call.exc = None
        /\ \A i \in 1..6 : Outputs[i] = Array(<<>>)
        /\ call.op = "detect_and_extract" => sift.descriptors = Array(<<>>)

\* the configured parameters of the instance
Params(self) == <<self.upsampling, self.n_octaves, self.n_scales, self.sigma_min,
                  self.sigma_in, self.c_dog, self.c_edge, self.deltas>>

\* what a call leaves behind, as far as it does not depend on earlier outputs
Yield(r) == <<r.exc, r.self.keypoints, r.self.positions, r.self.sigmas, r.self.scales,
              r.self.orientations, r.self.octaves>>

\* C3: over any sequence of calls the configured parameters (n_octaves in
\* particular) stay as set at construction, and detect / detect_and_extract leave
\* what they leave on a freshly constructed instance with the same parameters.
C3_ParametersStay ==
    /\ Params(sift) = Params(fresh)
    /\ call.op = "detect" =>
          Yield([exc |-> call.exc, self |-> sift]) = Yield(DetectResult(fresh, call.img))
    /\ call.op = "detect_and_extract" =>
          \E j \in Junk :
             /\ Yield([exc |-> call.exc, self |-> sift])
                   = Yield(DetectAndExtractResult(fresh, call.img, j))
             /\ sift.descriptors = DetectAndExtractResult(fresh, call.img, j).self.descriptors

\* C4: a call with an image that is not 2-D fails with the shape error and changes
\* no attribute of the instance.
C4_NonTwoDRejected ==
    [][call'.img.ndim # 2 => (call'.exc = "ValueError" /\ sift' = sift)]_vars

C4_Witness ==
    /\ call.img.ndim = 3
    /\ call.exc = "ValueError"
    /\ ~sift.positions.none /\ Len(sift.positions.v) > 0
    /\ ~sift.scalespace_sigmas.none

\* C5: right after detection every output keypoint, clones included, satisfies
\* positions[i] - sigmas[i] >= 0 and positions[i] + sigmas[i] <= (H, W) on both axes.
C5_BorderInvariant ==
    call.populated =>
        \A i \in 1..Len(sift.positions.v) : \A a \in 1..2 :
            /\ sift.positions.v[i][a] - sift.sigmas.v[i] >= 0
            /\ sift.positions.v[i][a] + sift.sigmas.v[i] <= call.img.shape[a] * PX

\* a clone (second orientation) is in the output while the scene holds an extremum
\* beyond the border of the image
C5_Witness ==
    /\ call.populated
    /\ \E i \in 1..Len(sift.orientations.v) : sift.orientations.v[i] > 1
    /\ Len(Survivors) < Len(KeysOfOctave(sift, call.img, 0))
                          + Len(KeysOfOctave(sift, call.img, 1))

\* C9: extract(image) right after a detect(image) that populated the arrays fills
\* descriptors with one row per entry of positions, the rows detect_and_extract(image)
\* produces.
C9_ExtractAfterDetect ==
    (call.op = "extract" /\ ~call.twin.none) =>
        /\ call.exc = None
        /\ ~sift.descriptors.none
        /\ Len(sift.descriptors.v) = Len(sift.positions.v)
        /\ sift.descriptors = call.twin.descriptors

C9_Witness ==
    /\ call.op = "extract" /\ ~call.twin.none
    /\ Len(sift.descriptors.v) >= 2

\* C10: every octave o < n_oct of the built pyramid has its sampling distance
\* delta_o, is scanned by the extremum finder and is processed by the later stages;
\* no stage fails for lack of delta_o.
C10_EveryOctaveHasDelta ==
    (call.op # "none" /\ CheckND(call.img)) =>
        /\ Len(sift.deltas) >= sift.n_octaves
        /\ ScannedOctaves(sift) = sift.n_octaves
        /\ call.exc # "IndexError"

\* the keypoints of the last call that kept their place (not the clones), as the
\* records _find_localize_evaluate returned them
KeptKeypoints ==
    LET n  == Len(sift.orientations.v)
        at == [i \in 1..n |-> [pos |-> sift.positions.v[i], scale |-> sift.scales.v[i],
                               sigma |-> sift.sigmas.v[i], octave |-> sift.octaves.v[i]]]
    IN  Pick(at, [i \in 1..n |-> sift.orientations.v[i] = 1], 1)

\* the patch [yx_o - R, yx_o + R] clipped to the octave is empty or a single row/column
PatchDegenerate(self, img, e) ==
    \E a \in 1..2 : PatchMax(self, img, e, a) <= PatchMin(self, img, e, a)

\* C14: the orientation assigner drops a keypoint if and only if its patch, clipped
\* to the octave, is empty or degenerate; a keypoint whose patch is clipped at row 0
\* or column 0 but not empty is kept, like one clipped at the high side.
C14_DroppedIffDegenerate ==
    call.populated =>
        KeptKeypoints
           = Pick(Survivors,
                  [i \in 1..Len(Survivors) |->
                      ~PatchDegenerate(sift, call.img, Survivors[i])], 1)

(***************************************************************************)
(* _find_localize_evaluate, lines 236-285, for one extremum of one DoG     *)
(* octave.  The octave is abstracted to what the code reads of it at the   *)
(* extremum's current index: its value, its gradient J (in quarters) and   *)
(* its Hessian H = <<h00, h11, h22, h01, h02, h12>>.                       *)
(***************************************************************************)
NScalesArgs == {2, 3, 4}
LocRows == 5
LocCols == 5

\* H . v for the symmetric H
MatVec(H, v) ==
    << H[1] * v[1] + H[4] * v[2] + H[5] * v[3],
       H[4] * v[1] + H[2] * v[2] + H[6] * v[3],
       H[5] * v[1] + H[6] * v[2] + H[3] * v[3] >>

Neg(H) == [i \in 1..Len(H) |-> -H[i]]

Det3(H) ==
    H[1] * (H[2] * H[3] - H[6] * H[6])
    - H[4] * (H[4] * H[3] - H[6] * H[5])
    + H[5] * (H[4] * H[6] - H[2] * H[5])

\* np.linalg.solve(A, b) by Cramer's rule (A symmetric and regular)
Solve(A, b) ==
    LET adj == << A[2] * A[3] - A[6] * A[6], A[1] * A[3] - A[5] * A[5],
                  A[1] * A[2] - A[4] * A[4], A[5] * A[6] - A[4] * A[3],
                  A[4] * A[6] - A[2] * A[5], A[4] * A[5] - A[1] * A[6] >>
        x == MatVec(adj, b)
    IN  [a \in 1..3 |-> x[a] \div Det3(A)]

\* the Hessians an octave may show at an extremum
Blob    == <<-2, -2, -2, 0, 0, 0>>
Skewed  == <<-2, -2, -2, 1, 0, 0>>
Edge    == <<-13, -1, -2, 0, 0, 0>>
Saddle  == <<1, -1, -2, 0, 0, 0>>
Flat    == <<0, -2, -2, 0, 1, 0>>
Singular == <<0, -2, -2, 0, 0, 0>>
Hessians == {Blob, Skewed, Edge, Saddle, Flat, Singular}

Vals == {-9, 3, 4, 12}

\* a reading whose solve yields the offset off (in quarters): J = -H . off
Reading(val, H, off) == [val |-> val, H |-> H, J |-> MatVec(Neg(H), off)]

ShiftOffs == { <<a, b, c>> : a \in {-3, 0, 3}, b \in {-3, 0, 3}, c \in {-3, 0, 3} }
StayOffs  == { <<0, 0, 0>>, <<1, -1, 1>>, <<2, 0, 0>>, <<0, -2, 1>> }

Readings ==
    { Reading(9, Blob, off) : off \in ShiftOffs \cup StayOffs }
    \cup { Reading(val, H, off) :
              val \in Vals, H \in Hessians, off \in {<<0, 0, 0>>, <<1, -1, 1>>} }

NoReading == Reading(0, <<0, 0, 0, 0, 0, 0>>, <<0, 0, 0>>)

\* peak_local_max(octave, threshold_abs): the indices of the local maxima; with
\* its default exclude_border none lies on the first or last index of an axis
PeakLocalMax(dim) ==
    { <<r, c, s>> : r \in 1..(dim[1] - 2), c \in 1..(dim[2] - 2), s \in 1..(dim[3] - 2) }

\* mutant: the upper bound of the shift is the last index, not the last interior one
WrongPositionPos_LastIndex(off, key, dim) ==
    [a \in 1..3 |-> off[a] > 2 /\ key[a] + 1 < dim[a]]

\* line 256: off > 0.5 and keys + 1 < dim - 1
WrongPositionPos(off, key, dim) ==
    [a \in 1..3 |-> off[a] > 2 /\ key[a] + 1 < dim[a] - 1]

\* line 258: off < -0.5 and keys - 1 > 0
WrongPositionNeg(off, key) ==
    [a \in 1..3 |-> off[a] < -2 /\ key[a] - 1 > 0]

\* lines 261-262
Shift(key, pos, neg) ==
    [a \in 1..3 |-> key[a] + (IF pos[a] THEN 1 ELSE 0) - (IF neg[a] THEN 1 ELSE 0)]

\* line 263: finished = all(|off| < 0.5)
Finished(off) == \A a \in 1..3 : Abs(off[a]) < 2

\* line 269: w = vals + 0.5 * sum(J * off), times 32
W32(rd, off) == 32 * rd.val + rd.J[1] * off[1] + rd.J[2] * off[2] + rd.J[3] * off[3]

\* lines 273, 277: |w| > self.c_dog / self.n_scales
ContrastFilter(self, w32) ==
    Abs(w32) * self.n_scales * self.c_dog[2] > 32 * self.c_dog[1]

\* lines 278-282: trace and determinant of H[:2, :2] from its eigenvalues;
\* |trace ** 2 / determinant| <= (c_edge + 1) ** 2 / c_edge; x / 0 is inf or nan
Trace2(H) == H[1] + H[2]
Det2(H) == H[1] * H[2] - H[4] * H[4]

EdgeFilter(self, H) ==
    /\ Det2(H) # 0
    /\ Trace2(H) * Trace2(H) * self.c_edge
          <= (self.c_edge + 1) * (self.c_edge + 1) * Abs(Det2(H))

\* the scan of one DoG octave starts: an extremum found by peak_local_max
LocStart ==
    /\ loc.pc = "idle"
    /\ \E key \in PeakLocalMax(<<LocRows, LocCols, sift.n_scales + 2>>) :
          loc' = [pc |-> "refine", dim |-> <<LocRows, LocCols, sift.n_scales + 2>>,
                  key |-> key, i |-> 0, rd |-> NoReading, off |-> <<0, 0, 0>>,
                  w |-> 0]
    /\ UNCHANGED <<sift, fresh, scene, call, orient, bld>>

\* one pass of `for i in range(5)` in which this extremum is read anew
LocIterate ==
    /\ loc.pc = "refine"
    /\ \E rd \in Readings :
         IF Det3(rd.H) = 0
         THEN loc' = [loc EXCEPT !.pc = "LinAlgError", !.rd = rd]
         ELSE
           LET off == Solve(Neg(rd.H), rd.J)
               pos == WrongPositionPos(off, loc.key, loc.dim)
               neg == WrongPositionNeg(off, loc.key)
               any == \E a \in 1..3 : pos[a] \/ neg[a]
           IN  IF ~any \/ loc.i = 4
               THEN loc' = [loc EXCEPT !.pc = "localized", !.rd = rd, !.off = off]
               ELSE loc' = [loc EXCEPT !.key = Shift(loc.key, pos, neg), !.i = loc.i + 1]
    /\ UNCHANGED <<sift, fresh, scene, call, orient, bld>>

\* a further pass made because another extremum of the octave still moves: this
\* one has no wrong position, keeps its index and is read again with the same result
LocRepeat ==
    /\ loc.pc = "localized"
    /\ loc.i < 4
    /\ LET pos == WrongPositionPos(loc.off, loc.key, loc.dim)
           neg == WrongPositionNeg(loc.off, loc.key)
       IN  ~\E a \in 1..3 : pos[a] \/ neg[a]
    /\ loc' = [loc EXCEPT !.i = loc.i + 1]
    /\ UNCHANGED <<sift, fresh, scene, call, orient, bld>>

\* lines 263-285: the masks finished, contrast_filter, edge_filter
LocEvaluate ==
    /\ loc.pc = "localized"
    /\ LET w32 == W32(loc.rd, loc.off)
       IN  loc' = [loc EXCEPT
              !.w = w32,
              !.pc = IF ~Finished(loc.off) THEN "unfinished"
                     ELSE IF ~ContrastFilter(sift, w32) THEN "low_contrast"
                     ELSE IF ~EdgeFilter(sift, loc.rd.H) THEN "edge"
                     ELSE "passed"]
    /\ UNCHANGED <<sift, fresh, scene, call, orient, bld>>

InitLoc ==
    /\ \E n \in NScalesArgs :
          sift = SIFTInit(DefaultUpsampling, DefaultNOctaves, n, DefaultCDog, DefaultCEdge)
    /\ fresh = sift
    /\ scene = <<>>
    /\ call = NoCall
    /\ loc = [pc |-> "idle"]
    /\ orient = [pc |-> "idle"]
    /\ bld = [pc |-> "idle"]

NextLoc == LocStart \/ LocIterate \/ LocRepeat \/ LocEvaluate

SpecLoc == InitLoc /\ [][NextLoc]_vars

(***************************************************************************)
(* Claims about localization and filtering (checked under SpecLoc)         *)
(***************************************************************************)
Passed == loc.pc = "passed"

\* C6: every candidate that passes the edge filter has a spatial sub-Hessian with
\* det > 0 and tr^2 / det <= (c_edge + 1)^2 / c_edge; det <= 0 is always rejected.
C6_EdgeFilter ==
    Passed =>
        /\ Det2(loc.rd.H) > 0
        /\ Trace2(loc.rd.H) * Trace2(loc.rd.H) * DefaultCEdge
              <= (DefaultCEdge + 1) * (DefaultCEdge + 1) * Det2(loc.rd.H)

\* C7 as stated: every kept keypoint has |w| > c_dog / n_scales with c_dog the
\* option as configured (not adjusted for n_scales).
C7_ContrastBase ==
    Passed => Abs(loc.w) * sift.n_scales > 32 * DefaultCDog

\* C7 as amended: every kept keypoint has |w| > C_dog / n_scales with
\* C_dog = (2^(1/n_scales) - 1) / (2^(1/3) - 1) * c_dog, the adjusted threshold.
C7_ContrastAdjusted ==
    Passed => Abs(loc.w) * sift.n_scales * (Root2(3) - FP)
                 > 32 * (Root2(sift.n_scales) - FP) * DefaultCDog

\* a keypoint is kept although its response is not above c_dog / n_scales
C7_Witness ==
    /\ Passed
    /\ sift.n_scales = 4
    /\ Abs(loc.w) * sift.n_scales <= 32 * DefaultCDog

\* C8: during the refinement and after it the index (row, col, scale) of a candidate
\* is never the first or last index of an axis of its DoG octave, so 1 <= s <= n_scales
\* and every lookup at index +-1 is in bounds.
C8_IndexInterior ==
    loc.pc # "idle" =>
        /\ Interior(loc.key, loc.dim)
        /\ loc.key[3] >= 1 /\ loc.key[3] <= sift.n_scales

\* after shifts the candidate sits on the last interior scale and the first interior
\* row, and its offset still points outwards
C8_Witness ==
    /\ loc.pc = "localized"
    /\ loc.i >= 2
    /\ loc.key[3] = sift.n_scales /\ loc.key[1] = 1
    /\ loc.off[3] > 2 /\ loc.off[1] < -2

\* the candidate has been through the masks of lines 263-285
Evaluated == loc.pc \in {"unfinished", "low_contrast", "edge", "passed"}

\* C11: the refinement of a candidate stops after at most 5 iterations, and the
\* candidate succeeds localization exactly when all three components of the offset
\* computed in the last iteration satisfy |off| <= 0.5; one whose offset still
\* exceeds 0.5 is discarded.
C11_LocalizationSucceeds ==
    Evaluated =>
        /\ loc.i <= 4
        /\ (loc.pc # "unfinished") <=> (\A a \in 1..3 : Abs(loc.off[a]) <= 2)

(***************************************************************************)
(* _compute_orientation, lines 334-373, for one keypoint with a valid      *)
(* patch.  The patch is abstracted to the histogram np.add.at leaves in    *)
(* hist (line 350), in integer units.  np.convolve with ones(3) / 3 is     *)
(* modelled without its division: after p passes the entries are in units  *)
(* of 1 / 3^p, in exact arithmetic.  Bin b of the code is entry b + 1.     *)
(***************************************************************************)
NBinsArgs == {8, 16}
SmoothPasses == 6
HistPad == 3
\* c_max = 0.8 as the fraction <<numerator, denominator>>
CMax == <<4, 5>>

\* a histogram whose weight w lies in bin j (1-based)
Bump(n, j, w) == [b \in 1..n |-> IF b = j THEN w ELSE 0]

\* the histograms a patch may yield: one gradient direction, two opposite
\* directions of unequal weight, or no gradient at all
RawHists(n) ==
    { Bump(n, j, 1) : j \in 1..n }
    \cup { [b \in 1..n |-> Bump(n, j, 5)[b] + Bump(n, ((j + n \div 2 - 1) % n) + 1, 4)[b]] :
              j \in 1..n }
    \cup { Bump(n, 1, 0) }

\* line 353: np.hstack((hist[-3:], hist, hist[:3]))
PadHist(h) == SubSeq(h, Len(h) - HistPad + 1, Len(h)) \o h \o SubSeq(h, 1, HistPad)

\* an entry of h, zero beyond its ends (the zero padding of np.convolve)
AtOrZero(h, i) == IF i < 1 \/ i > Len(h) THEN 0 ELSE h[i]

\* line 355: 3 * np.convolve(hist, np.ones(3) / 3, mode='same')
Convolve(h) == [i \in 1..Len(h) |-> AtOrZero(h, i - 1) + h[i] + AtOrZero(h, i + 1)]

\* line 356: hist[3:-3]
CropHist(h) == SubSeq(h, HistPad + 1, Len(h) - HistPad)

\* line 357: maximum_filter(hist, [3]) of scipy.ndimage with its default mode
\* 'reflect': beyond an end the array continues with its own end entry
MaximumFilter(h) ==
    [i \in 1..Len(h) |-> Max2(Max2(h[Max2(i - 1, 1)], h[i]), h[Min2(i + 1, Len(h))])]

\* np.max(hist)
MaxOf(h) == CHOOSE m \in { h[i] : i \in 1..Len(h) } : \A i \in 1..Len(h) : h[i] <= m

\* line 359: hist >= c_max * max(hist) and max_filter == hist
Maxima(h) ==
    { b \in 1..Len(h) : CMax[2] * h[b] >= CMax[1] * MaxOf(h) /\ MaximumFilter(h)[b] = h[b] }

\* lines 334-350: the histogram of the patch is filled
OriFill ==
    /\ orient.pc = "idle"
    /\ \E n \in NBinsArgs : \E h \in RawHists(n) :
          orient' = [pc |-> "filled", raw |-> h, hist |-> h, pass |-> 0, maxima |-> {}]
    /\ UNCHANGED <<sift, fresh, scene, call, loc, bld>>

\* line 353
OriPad ==
    /\ orient.pc = "filled"
    /\ orient' = [orient EXCEPT !.pc = "smoothing", !.hist = PadHist(orient.hist)]
    /\ UNCHANGED <<sift, fresh, scene, call, loc, bld>>

\* lines 354-355: one pass of `for _ in range(6)`
OriConvolve ==
    /\ orient.pc = "smoothing"
    /\ orient.pass < SmoothPasses
    /\ orient' = [orient EXCEPT !.hist = Convolve(orient.hist), !.pass = orient.pass + 1]
    /\ UNCHANGED <<sift, fresh, scene, call, loc, bld>>

\* line 356
OriCrop ==
    /\ orient.pc = "smoothing"
    /\ orient.pass = SmoothPasses
    /\ orient' = [orient EXCEPT !.pc = "smoothed", !.hist = CropHist(orient.hist)]
    /\ UNCHANGED <<sift, fresh, scene, call, loc, bld>>

\* lines 357-359: the bins that get an orientation (the first in orientations,
\* the others as clones of the keypoint, lines 362-373)
OriPeaks ==
    /\ orient.pc = "smoothed"
    /\ orient' = [orient EXCEPT !.pc = "peaks", !.maxima = Maxima(orient.hist)]
    /\ UNCHANGED <<sift, fresh, scene, call, loc, bld>>

InitOri ==
    /\ sift = SIFTInit(DefaultUpsampling, DefaultNOctaves, DefaultNScales,
                       DefaultCDog, DefaultCEdge)
    /\ fresh = sift
    /\ scene = <<>>
    /\ call = NoCall
    /\ loc = [pc |-> "idle"]
    /\ orient = [pc |-> "idle"]
    /\ bld = [pc |-> "idle"]

NextOri == OriFill \/ OriPad \/ OriConvolve \/ OriCrop \/ OriPeaks

SpecOri == InitOri /\ [][NextOri]_vars

(***************************************************************************)
(* Claims about the orientation histogram (checked under SpecOri)          *)
(***************************************************************************)
\* the circular neighbours of entry b of a histogram of n bins
PrevBin(b, n) == IF b = 1 THEN n ELSE b - 1
NextBin(b, n) == IF b = n THEN 1 ELSE b + 1

\* one circular convolution with the box kernel [1, 1, 1], and p of them
CircularBox(h) ==
    [b \in 1..Len(h) |-> h[PrevBin(b, Len(h))] + h[b] + h[NextBin(b, Len(h))]]

RECURSIVE CircularSmooth(_, _)
CircularSmooth(h, p) == IF p = 0 THEN h ELSE CircularSmooth(CircularBox(h), p - 1)

\* C12: a bin b of the smoothed histogram is accepted as a reference peak exactly
\* when hist[b] >= hist[(b - 1) mod n_bins], hist[b] >= hist[(b + 1) mod n_bins] and
\* hist[b] >= c_max * max(hist); bin 0 is compared with bin n_bins - 1 and back.
C12_CircularPeaks ==
    orient.pc = "peaks" =>
        LET h == orient.hist
            n == Len(h)
        IN  \A b \in 1..n :
               b \in orient.maxima <=>
                  /\ h[b] >= h[PrevBin(b, n)]
                  /\ h[b] >= h[NextBin(b, n)]
                  /\ CMax[2] * h[b] >= CMax[1] * MaxOf(h)

\* C13: the smoothed histogram is the raw histogram after six circular convolutions
\* with the box kernel [1, 1, 1] / 3, in every bin, the first and last three included.
C13_CircularSmoothing ==
    orient.pc \in {"smoothed", "peaks"} =>
        orient.hist = CircularSmooth(orient.raw, SmoothPasses)

(***************************************************************************)
(* _create_scalespace, lines 161-187, step by step: the seed blur and the  *)
(* table of sigmas it fills octave by octave.  The image itself is not     *)
(* modelled; the sigma of each blur is.                                    *)
(***************************************************************************)
\* the upsampling factors __init__ accepts (line 124)
AcceptedUpsamplings == {1, 2, 4}

\* a float that is a real number, and nan
Real(x) == [real |-> TRUE, v |-> x]
NaN == [real |-> FALSE, v |-> 0]

\* line 168: self.sigma_min ** 2 - self.sigma_in ** 2, in PX^2 units
SeedRadicand(self) == self.sigma_min * self.sigma_min - self.sigma_in * self.sigma_in

\* line 168: (1 / self.delta_min) * np.sqrt(radicand); np.sqrt of a negative is nan
SeedSigma(self) ==
    IF SeedRadicand(self) < 0 THEN NaN
    ELSE Real(self.upsampling * ISqrt(SeedRadicand(self)))

\* lines 162-169: the seed blur.  With a nan sigma, gaussian either raises or
\* returns an image of nan; the table of sigmas does not depend on the image
BldSeed ==
    /\ bld.pc = "idle"
    /\ \E raises \in BOOLEAN :
          bld' = [pc |-> IF raises /\ ~SeedSigma(sift).real THEN "ValueError" ELSE "octave",
                  radicand |-> SeedRadicand(sift), seed |-> SeedSigma(sift),
                  o |-> 0, s |-> 0, cur |-> sift.sigma_min, row |-> <<>>, sigmas |-> <<>>]
    /\ UNCHANGED <<sift, fresh, scene, call, loc, orient>>

\* lines 172-176: octave o starts at current_sigma
BldOctaveStart ==
    /\ bld.pc = "octave"
    /\ bld.o < sift.n_octaves
    /\ bld' = [bld EXCEPT !.pc = "scales", !.row = <<bld.cur>>, !.s = 1]
    /\ UNCHANGED <<sift, fresh, scene, call, loc, orient>>

\* lines 177-182: one pass of `for s in range(1, self.n_scales + 3)`
BldScale ==
    /\ bld.pc = "scales"
    /\ bld.s < sift.n_scales + 3
    /\ LET next == (bld.cur * Root2(sift.n_scales)) \div FP
       IN  bld' = [bld EXCEPT !.cur = next, !.row = Append(bld.row, next), !.s = bld.s + 1]
    /\ UNCHANGED <<sift, fresh, scene, call, loc, orient>>

\* lines 183-185: the octave is stored, the next one starts at sigmas[o, n_scales]
BldOctaveEnd ==
    /\ bld.pc = "scales"
    /\ bld.s = sift.n_scales + 3
    /\ bld' = [bld EXCEPT !.pc = "octave", !.sigmas = Append(bld.sigmas, bld.row),
                          !.cur = bld.row[sift.n_scales + 1], !.o = bld.o + 1]
    /\ UNCHANGED <<sift, fresh, scene, call, loc, orient>>

\* lines 186-187
BldReturn ==
    /\ bld.pc = "octave"
    /\ bld.o = sift.n_octaves
    /\ bld' = [bld EXCEPT !.pc = "done"]
    /\ sift' = [sift EXCEPT !.scalespace_sigmas = Array(bld.sigmas)]
    /\ UNCHANGED <<fresh, scene, call, loc, orient>>

InitBld ==
    /\ \E u \in AcceptedUpsamplings, n \in NOctavesArgs, ns \in NScalesArgs :
          sift = SIFTInit(u, n, ns, DefaultCDog, DefaultCEdge)
    /\ fresh = sift
    /\ scene = <<>>
    /\ call = NoCall
    /\ loc = [pc |-> "idle"]
    /\ orient = [pc |-> "idle"]
    /\ bld = [pc |-> "idle"]

NextBld == BldSeed \/ BldOctaveStart \/ BldScale \/ BldOctaveEnd \/ BldReturn

SpecBld == InitBld /\ [][NextBld]_vars

(***************************************************************************)
(* Claims about the scale-space builder (checked under SpecBld)            *)
(***************************************************************************)
\* consistency of the two levels: the table the builder leaves step by step is the
\* one CreateScalespace yields at the level of the public operations
BldAgreesWithCreateScalespace ==
    bld.pc = "done" => sift = CreateScalespace(fresh)

\* C15: for every accepted upsampling factor (1, 2 and 4) with the default
\* sigma_min = 1.6 and sigma_in = 0.5, the radicand sigma_min^2 - sigma_in^2 of the
\* seed blur is non-negative with the sigma_min the builder uses, so the seed sigma
\* (1 / delta_min) * sqrt(sigma_min^2 - sigma_in^2) is a real number >= 0.
C15_SeedSigmaReal ==
    bld.pc # "idle" =>
        /\ bld.radicand >= 0
        /\ bld.seed.real /\ bld.seed.v >= 0

====
